---- MODULE Spec2Model ----
(***************************************************************************)
(* A model of four parts of the truck B-rep kernel:                        *)
(*   - truck_topology  Vertex<P>: Arc<Mutex<P>> handles (vertex.rs)        *)
(*   - truck-geometry  ExtrudedCurve (extruded_curve.rs)                   *)
(*   - truck-geotrait  presearch, search_parameter,                        *)
(*                     search_nearest_parameter, parameter_division        *)
(*                     (algo/surface.rs)                                   *)
(* Each part has its own specification over the shared variables; the      *)
(* variables of the other parts stay at their idle values.                 *)
(***************************************************************************)
EXTENDS Integers, Sequences, FiniteSets, TLC

(***************************************************************************)
(* Bounds of the model.                                                    *)
(***************************************************************************)
MaxHandles == 3     \* Vertex handles alive at once
MaxAddr == 2        \* heap addresses the allocator can hand out

VARIABLES
    vertices,       \* handle -> address held in its `point: Arc<..>` (0: no such handle)
    heap,           \* address -> ArcInner<Mutex<P>> cell
    guards,         \* live MutexGuards: handle -> number of guards borrowing it
    origin,         \* ghost: handle -> name of the Vertex::new call it descends from
    written,        \* ghost: origin -> value last stored into that vertex
    lastTry,        \* outcome of the try_lock_point call just made (NoTry otherwise)
    released,       \* ghost: address -> the latest guard event there was a drop
    lastWrite,      \* the payload write just made (NoWrite otherwise)
    ex,             \* extruded_curve.rs: the surface built and the last sample taken
    ps,             \* surface.rs presearch: the call's arguments and its return value
    nw,             \* surface.rs search_parameter / search_nearest_parameter: one call
    dv              \* surface.rs parameter_division: two calls on one surface

vertexVars == <<vertices, heap, guards, origin, written,
                lastTry, released, lastWrite>>

\* The variables that vertex.rs does not touch.
nonVertexVars == <<ex, ps, nw, dv>>

vars == <<vertexVars, ex, ps, nw, dv>>

----------------------------------------------------------------------------
(***************************************************************************)
(* truck_topology/src/vertex.rs                                            *)
(***************************************************************************)
Handles == 1..MaxHandles
Addrs == 1..MaxAddr
Origins == Addrs            \* names for the vertices alive at once (ghost)
Vals == {0, 1}            \* payload values
NoVal == -1

\* A heap cell that is not allocated.
FreeCell == [alloc |-> FALSE, strong |-> 0, data |-> NoVal,
             locked |-> FALSE, poisoned |-> FALSE]

\* Arc::new(Mutex::new(point)): one strong reference, unlocked, not poisoned.
ArcNew(point) == [alloc |-> TRUE, strong |-> 1, data |-> point,
                  locked |-> FALSE, poisoned |-> FALSE]

LiveHandles == {h \in Handles : vertices[h] # 0}
FreeHandles == Handles \ LiveHandles
FreeAddrs == {a \in Addrs : ~heap[a].alloc}

\* The k smallest handle slots that are free (handle numbers are names only).
RECURSIVE FirstFree(_, _)
FirstFree(free, k) ==
    IF k = 0 THEN <<>>
    ELSE LET h == CHOOSE x \in free : \A y \in free : x <= y
         IN <<h>> \o FirstFree(free \ {h}, k - 1)

NoTry == [handle |-> 0, result |-> "none", contended |-> FALSE,
          afterDrop |-> FALSE, poisoned |-> FALSE]
NoWrite == [handle |-> 0, value |-> NoVal]

ExtrudeIdle == ex = "idle"
PresearchIdle == ps = "idle"
NewtonIdle == nw = "idle"
DivisionIdle == dv = "idle"

VertexInit ==
    /\ vertices = [h \in Handles |-> 0]
    /\ heap = [a \in Addrs |-> FreeCell]
    /\ guards = [h \in Handles |-> 0]
    /\ origin = [h \in Handles |-> 0]
    /\ written = [o \in Origins |-> NoVal]
    /\ lastTry = NoTry
    /\ released = [a \in Addrs |-> FALSE]
    /\ lastWrite = NoWrite

\* Vertex::news(points): one Vertex::new per element; `at` gives the address
\* the allocator returns for each.  Vertex::new is the one-element case.
NewsAt(points, at) ==
    LET n == Len(points)
        hs == FirstFree(FreeHandles, n)
        os == at    \* a new vertex is named after the address it is given
    IN /\ vertices' = [h \in Handles |->
                        IF \E i \in 1..n : hs[i] = h
                        THEN at[CHOOSE i \in 1..n : hs[i] = h]
                        ELSE vertices[h]]
       /\ heap' = [a \in Addrs |->
                        IF \E i \in 1..n : at[i] = a
                        THEN ArcNew(points[CHOOSE i \in 1..n : at[i] = a])
                        ELSE heap[a]]
       /\ origin' = [h \in Handles |->
                        IF \E i \in 1..n : hs[i] = h
                        THEN os[CHOOSE i \in 1..n : hs[i] = h]
                        ELSE origin[h]]
       /\ written' = [o \in Origins |->
                        IF \E i \in 1..n : os[i] = o
                        THEN points[CHOOSE i \in 1..n : os[i] = o]
                        ELSE written[o]]
       /\ released' = [a \in Addrs |->
                        IF \E i \in 1..n : at[i] = a THEN FALSE ELSE released[a]]
       /\ lastTry' = NoTry
       /\ lastWrite' = NoWrite
       /\ UNCHANGED nonVertexVars
       /\ UNCHANGED guards

\* The allocator may return any n distinct free addresses.
Placements(n) ==
    {at \in [1..n -> FreeAddrs] : \A i, j \in 1..n : at[i] = at[j] => i = j}

new(point) ==
    /\ Cardinality(FreeHandles) >= 1
    /\ \E at \in Placements(1) : NewsAt(<<point>>, at)

news(points) ==
    /\ Cardinality(FreeHandles) >= Len(points)
    /\ \E at \in Placements(Len(points)) : NewsAt(points, at)

\* A clone that copies the payload into a cell of its own (Arc::new(Mutex::new(
\* value.clone())) in place of Arc::clone).
clone_copy(h) ==
    /\ h \in LiveHandles
    /\ FreeHandles # {}
    /\ \E a2 \in FreeAddrs :
        LET h2 == FirstFree(FreeHandles, 1)[1]
        IN /\ vertices' = [vertices EXCEPT ![h2] = a2]
           /\ heap' = [heap EXCEPT ![a2] = ArcNew(heap[vertices[h]].data)]
           /\ origin' = [origin EXCEPT ![h2] = origin[h]]
    /\ lastTry' = NoTry
    /\ lastWrite' = NoWrite
    /\ UNCHANGED nonVertexVars
    /\ UNCHANGED <<guards, written, released>>

\* impl Clone for Vertex: Arc::clone(&self.point), a new handle to the same cell.
clone(h) ==
    /\ h \in LiveHandles
    /\ FreeHandles # {}
    /\ LET h2 == FirstFree(FreeHandles, 1)[1]
           a == vertices[h]
       IN /\ vertices' = [vertices EXCEPT ![h2] = a]
          /\ heap' = [heap EXCEPT ![a].strong = @ + 1]
          /\ origin' = [origin EXCEPT ![h2] = origin[h]]
    /\ lastTry' = NoTry
    /\ lastWrite' = NoWrite
    /\ UNCHANGED nonVertexVars
    /\ UNCHANGED <<guards, written, released>>

\* An equality that compares the payloads instead of the pointers.
eq_by_value(a, b) == heap[vertices[a]].data = heap[vertices[b]].data

\* impl PartialEq for Vertex: std::ptr::eq of the two Arc pointers.
eq(a, b) == vertices[a] = vertices[b]

\* impl Hash for Vertex: std::ptr::hash of the Arc pointer.
hash(a) == vertices[a]

\* A try_lock that does not look at the lock word.
MutexTryLock_unchecked(cell) == IF cell.poisoned THEN "Poisoned" ELSE "Ok"

\* Mutex::try_lock on a cell: WouldBlock when locked; otherwise the lock is
\* taken and the guard comes back in Ok, or inside Err(Poisoned) when an
\* earlier holder panicked.
MutexTryLock(cell) ==
    IF cell.locked THEN "WouldBlock"
    ELSE IF cell.poisoned THEN "Poisoned" ELSE "Ok"

\* The guards alive on the storage at address a.
GuardsOf(a) == {h \in Handles : vertices[h] = a /\ guards[h] > 0}

\* Vertex::try_lock_point(&self), called by any thread: self.point.try_lock().
try_lock_point(h) ==
    /\ h \in LiveHandles
    /\ LET a == vertices[h]
           r == MutexTryLock(heap[a])
       IN /\ lastTry' = [handle |-> h, result |-> r,
                         contended |-> GuardsOf(a) # {},
                         afterDrop |-> released[a],
                         poisoned |-> heap[a].poisoned]
          /\ IF r = "WouldBlock"
             THEN UNCHANGED <<heap, guards, released>>
             ELSE /\ heap' = [heap EXCEPT ![a].locked = TRUE]
                  /\ guards' = [guards EXCEPT ![h] = @ + 1]
                  /\ released' = [released EXCEPT ![a] = FALSE]
    /\ lastWrite' = NoWrite
    /\ UNCHANGED nonVertexVars
    /\ UNCHANGED <<vertices, origin, written>>

\* *guard = x: a write of the payload through a live guard.
GuardWrite(g, x) ==
    /\ guards[g] > 0
    /\ heap' = [heap EXCEPT ![vertices[g]].data = x]
    /\ written' = [written EXCEPT ![origin[g]] = x]
    /\ lastTry' = NoTry
    /\ lastWrite' = [handle |-> g, value |-> x]
    /\ UNCHANGED nonVertexVars
    /\ UNCHANGED <<vertices, guards, origin, released>>

\* *v.try_lock_point().unwrap(): the payload read through handle h.
Read(h) == heap[vertices[h]].data

\* A guard that goes away without unlocking the mutex.
GuardDrop_leak(g, panicking) ==
    /\ guards[g] > 0
    /\ released' = [released EXCEPT ![vertices[g]] = TRUE]
    /\ guards' = [guards EXCEPT ![g] = @ - 1]
    /\ lastTry' = NoTry
    /\ lastWrite' = NoWrite
    /\ UNCHANGED nonVertexVars
    /\ UNCHANGED <<vertices, heap, origin, written>>

\* The guard goes out of scope: the mutex is unlocked; it is poisoned when the
\* scope is left by a panic.
GuardDrop(g, panicking) ==
    /\ guards[g] > 0
    /\ LET a == vertices[g]
       IN /\ heap' = [heap EXCEPT ![a].locked = FALSE,
                                  ![a].poisoned = @ \/ panicking]
          /\ released' = [released EXCEPT ![a] = TRUE]
    /\ guards' = [guards EXCEPT ![g] = @ - 1]
    /\ lastTry' = NoTry
    /\ lastWrite' = NoWrite
    /\ UNCHANGED nonVertexVars
    /\ UNCHANGED <<vertices, origin, written>>

\* Handle slots above a dropped handle h move down by one: the live handles
\* always fill the slots 1..k (handle numbers are names only).
Compact(f, h, none) ==
    [i \in Handles |-> IF i < h THEN f[i]
                       ELSE IF i < MaxHandles THEN f[i + 1] ELSE none]

\* A handle is dropped (no guard borrows it): the Arc's strong count goes
\* down, and the cell is freed with the last handle.
VertexDrop(h) ==
    /\ h \in LiveHandles
    /\ guards[h] = 0
    /\ LET a == vertices[h]
           last == heap[a].strong = 1
       IN /\ heap' = [heap EXCEPT ![a] = IF last THEN FreeCell
                                         ELSE [@ EXCEPT !.strong = @ - 1]]
          /\ written' = IF last THEN [written EXCEPT ![origin[h]] = NoVal]
                        ELSE written
          /\ released' = IF last THEN [released EXCEPT ![a] = FALSE]
                         ELSE released
    /\ vertices' = Compact(vertices, h, 0)
    /\ origin' = Compact(origin, h, 0)
    /\ guards' = Compact(guards, h, 0)
    /\ lastTry' = NoTry
    /\ lastWrite' = NoWrite
    /\ UNCHANGED nonVertexVars

VertexNext ==
    \/ \E x \in Vals : new(x)
    \/ \E x, y \in Vals : news(<<x, y>>)
    \/ \E h \in Handles : clone(h)
    \/ \E h \in Handles : try_lock_point(h)
    \/ \E g \in Handles, x \in Vals : GuardWrite(g, x)
    \/ \E g \in Handles, p \in BOOLEAN : GuardDrop(g, p)
    \/ \E h \in Handles : VertexDrop(h)

\* Only vertex.rs runs: the other parts stay idle.
InitVertex == VertexInit /\ ExtrudeIdle /\ PresearchIdle /\ NewtonIdle /\ DivisionIdle

SpecVertex == InitVertex /\ [][VertexNext]_vars

----------------------------------------------------------------------------
(***************************************************************************)
(* Claims about Vertex (checked under SpecVertex).                         *)
(***************************************************************************)
\* The number of live guards on the storage at address a.
RECURSIVE SumGuards(_, _)
SumGuards(a, hs) ==
    IF hs = {} THEN 0
    ELSE LET h == CHOOSE x \in hs : TRUE
         IN (IF vertices[h] = a THEN guards[h] ELSE 0) + SumGuards(a, hs \ {h})
GuardCount(a) == SumGuards(a, Handles)

\* C1: two live handles compare equal (==) exactly when they descend from the
\* same Vertex::new call: a clone equals its source, and handles of separate
\* Vertex::new calls are never equal, whatever their payloads.
C1_IdentityEquality ==
    \A a, b \in LiveHandles : eq(a, b) <=> origin[a] = origin[b]

\* C1 witness: a handle, its clone and a separately constructed vertex with an
\* equal payload are alive together, after a write and with a guard alive.
C1_Witness ==
    \E a, b, c \in LiveHandles :
        /\ a # b /\ origin[a] = origin[b] /\ eq(a, b)
        /\ origin[c] # origin[a] /\ Read(c) = Read(a) /\ ~eq(a, c)
        /\ \E g \in Handles : guards[g] > 0

\* C2: no storage ever has two live guards, and a try_lock_point made while a
\* guard on the same storage is alive returns the contention error WouldBlock.
C2_MutualExclusion ==
    /\ \A a \in Addrs : GuardCount(a) <= 1
    /\ lastTry.contended => lastTry.result = "WouldBlock"

\* C2 witness: try_lock_point on one handle has just failed with WouldBlock
\* while the guard is held through another handle of the same storage.
C2_Witness ==
    /\ lastTry.result = "WouldBlock"
    /\ \E g \in LiveHandles :
        /\ g # lastTry.handle
        /\ guards[g] > 0
        /\ vertices[g] = vertices[lastTry.handle]

\* C3: a storage is never locked without a live guard, and the first
\* try_lock_point after a guard drop on a storage obtains the guard: Ok, or
\* Err(Poisoned) carrying the guard when a holder left its scope by a panic.
C3_ReleasedOnDrop ==
    /\ \A a \in Addrs : heap[a].locked => GuardCount(a) >= 1
    /\ lastTry.afterDrop =>
        /\ lastTry.result # "WouldBlock"
        /\ ~lastTry.poisoned => lastTry.result = "Ok"

\* C3 witness: a guard was dropped and the next try_lock_point on that storage,
\* made through another handle, has just returned Ok.
C3_Witness ==
    /\ lastTry.afterDrop
    /\ lastTry.result = "Ok"
    /\ \E h \in LiveHandles : h # lastTry.handle /\ eq(h, lastTry.handle)

\* C4: a read through any live handle returns the value last written to the
\* vertex that handle descends from (the constructor's value before any
\* write); a write through one handle is read back through all its clones,
\* and no write changes what another vertex reads.
C4_SharedPayload ==
    /\ \A h \in LiveHandles : Read(h) = written[origin[h]]
    /\ lastWrite.handle # 0 =>
        \A h \in LiveHandles :
            origin[h] = origin[lastWrite.handle] => Read(h) = lastWrite.value

\* C4 witness: a value has just been written through one handle, a clone reads
\* it, and a vertex with other storage still reads something else.
C4_Witness ==
    /\ lastWrite.handle # 0
    /\ \E h2, h3 \in LiveHandles :
        /\ h2 # lastWrite.handle
        /\ origin[h2] = origin[lastWrite.handle]
        /\ Read(h2) = lastWrite.value
        /\ origin[h3] # origin[lastWrite.handle]
        /\ Read(h3) # lastWrite.value

----------------------------------------------------------------------------
(***************************************************************************)
(* truck-geometry/src/decorators/extruded_curve.rs                         *)
(*                                                                         *)
(* Parameters are the grid values i/N (kept as the numerator i), and every *)
(* coordinate is kept in fixed point with unit 1/N^3, in which all the     *)
(* products below are exact.                                               *)
(***************************************************************************)
N == 10                         \* const N in extruded_curve_test
Unit == N * N * N

Fx(n) == n * Unit               \* the number n
FxV(p) == [k \in 1..3 |-> Fx(p[k])]

VAdd(a, b) == [k \in 1..3 |-> a[k] + b[k]]
VSub(a, b) == [k \in 1..3 |-> a[k] - b[k]]
VTimes(n, a) == [k \in 1..3 |-> n * a[k]]
VZero == <<0, 0, 0>>            \* C::Vector::zero()

\* a * t for the parameter value t = i/N.
MulParam(a, i) == [k \in 1..3 |-> (a[k] * i) \div N]

\* The base curve of the test: BSplineCurve::new(KnotVec::bezier_knot(2), cpts),
\* a Bezier curve of degree 2, evaluated by de Casteljau's scheme.
Lerp(a, b, i) == VAdd(MulParam(a, N - i), MulParam(b, i))
curve_subs(cpts, i) ==
    Lerp(Lerp(FxV(cpts[1]), FxV(cpts[2]), i), Lerp(FxV(cpts[2]), FxV(cpts[3]), i), i)
curve_der(cpts, i) ==
    VTimes(2, VSub(Lerp(FxV(cpts[2]), FxV(cpts[3]), i),
                   Lerp(FxV(cpts[1]), FxV(cpts[2]), i)))
curve_der2(cpts, i) ==
    VTimes(2, VSub(VSub(FxV(cpts[3]), FxV(cpts[2])), VSub(FxV(cpts[2]), FxV(cpts[1]))))
curve_parameter_range == <<[kind |-> "Included", at |-> 0], [kind |-> "Included", at |-> N]>>

\* ExtrudedCurve::by_extrusion(curve, vector)
by_extrusion(curve, vector) == [curve |-> curve, vector |-> FxV(vector)]

\* impl ParametricSurface for ExtrudedCurve
\* A position that multiplies the vector by the wrong parameter.
subs_wrong_param(self, u, v) == VAdd(curve_subs(self.curve, u), MulParam(self.vector, u))

subs(self, u, v) == VAdd(curve_subs(self.curve, u), MulParam(self.vector, v))
uder(self, u, v) == curve_der(self.curve, u)
vder(self, u, v) == self.vector
uuder(self, u, v) == curve_der2(self.curve, u)
uvder(self, u, v) == VZero
vvder(self, u, v) == VZero
parameter_range(self) ==
    <<curve_parameter_range,
      <<[kind |-> "Included", at |-> 0], [kind |-> "Included", at |-> N]>>>>

\* The explicit tensor surface of the test, BSplineSurface::new((bezier_knot(2),
\* bezier_knot(1)), spts): the sum of B2_a(u) * B1_b(v) * spts[a][b] over the
\* Bernstein bases of degree 2 and 1, given as numerators over N^2 and N.
B2(i) == <<(N - i) * (N - i), 2 * i * (N - i), i * i>>
B2der(i) == <<-2 * (N - i), 2 * (N - 2 * i), 2 * i>>        \* over N
B2der2 == <<2, -4, 2>>
B1(j) == <<N - j, j>>
B1der == <<-1, 1>>

RECURSIVE TensorSum(_, _, _, _)
TensorSum(spts, wu, wv, n) ==
    IF n = 0 THEN VZero
    ELSE LET a == ((n - 1) \div 2) + 1
             b == ((n - 1) % 2) + 1
         IN VAdd(VTimes(wu[a] * wv[b], spts[a][b]), TensorSum(spts, wu, wv, n - 1))

\* Each takes the weights' common denominator d: the sum is scaled to 1/N^3.
Tensor(spts, wu, wv, d) == VTimes(Unit \div d, TensorSum(spts, wu, wv, 6))
tensor_subs(spts, i, j) == Tensor(spts, B2(i), B1(j), N * N * N)
tensor_uder(spts, i, j) == Tensor(spts, B2der(i), B1(j), N * N)
tensor_vder(spts, i, j) == Tensor(spts, B2(i), B1der, N * N)
tensor_uuder(spts, i, j) == Tensor(spts, B2der2, B1(j), N)
tensor_uvder(spts, i, j) == Tensor(spts, B2der(i), B1der, N)
tensor_vvder(spts, i, j) == VZero
tensor_parameter_range ==
    <<<<[kind |-> "Included", at |-> 0], [kind |-> "Included", at |-> N]>>,
      <<[kind |-> "Included", at |-> 0], [kind |-> "Included", at |-> N]>>>>

\* The control net of the tensor surface that equals the extrusion: each
\* control point of the curve and its translate by the vector.
spts_of(cpts, vector) ==
    [a \in 1..3 |-> <<cpts[a], VAdd(cpts[a], vector)>>]

\* The control points and sweep vectors tried; the first of each is the test's.
CtrlPts == {<<0, 0, 0>>, <<0, 1, 0>>, <<1, 0, 0>>, <<1, 2, -1>>}
Vectors == {<<0, 0, 1>>, <<1, 0, 0>>, <<-1, 2, 1>>}
Grid == 0..N

NoSample == [u |-> -1, v |-> -1, subs |-> VZero, uder |-> VZero, vder |-> VZero,
             uuder |-> VZero, uvder |-> VZero, vvder |-> VZero]

ExtrudeInit ==
    ex = [stage |-> "none", cpts |-> <<>>, vec |-> VZero,
          surface |-> [curve |-> <<>>, vector |-> VZero],
          range |-> <<>>, sample |-> NoSample]

\* let surface0 = ExtrudedCurve::by_extrusion(curve, vector); surface0.range_tuple()
Build(cpts, vector) ==
    /\ ex.stage = "none"
    /\ LET surface0 == by_extrusion(cpts, vector)
       IN ex' = [ex EXCEPT !.stage = "built", !.cpts = cpts, !.vec = vector,
                           !.surface = surface0,
                           !.range = parameter_range(surface0)]
    /\ UNCHANGED <<vertexVars, ps, nw, dv>>

\* One pass of the body of the test's loops `for i in 0..=N { for j in 0..=N`:
\* every method evaluated at (u, v) = (i/N, j/N).
Sample(i, j) ==
    /\ \/ ex.stage = "built" /\ i = 0 /\ j = 0
       \/ ex.stage = "sampled" /\ ex.sample.v < N
                               /\ i = ex.sample.u /\ j = ex.sample.v + 1
       \/ ex.stage = "sampled" /\ ex.sample.v = N /\ ex.sample.u < N
                               /\ i = ex.sample.u + 1 /\ j = 0
    /\ LET s == ex.surface
       IN ex' = [ex EXCEPT !.stage = "sampled",
                           !.sample = [u |-> i, v |-> j,
                                       subs |-> subs(s, i, j),
                                       uder |-> uder(s, i, j),
                                       vder |-> vder(s, i, j),
                                       uuder |-> uuder(s, i, j),
                                       uvder |-> uvder(s, i, j),
                                       vvder |-> vvder(s, i, j)]]
    /\ UNCHANGED <<vertexVars, ps, nw, dv>>

ExtrudeNext ==
    \/ \E cpts \in [1..3 -> CtrlPts], vector \in Vectors : Build(cpts, vector)
    \/ \E i, j \in Grid : Sample(i, j)

\* Only extruded_curve.rs runs.
InitExtrude == ExtrudeInit /\ VertexInit /\ PresearchIdle /\ NewtonIdle /\ DivisionIdle

SpecExtrude == InitExtrude /\ [][ExtrudeNext]_vars

(***************************************************************************)
(* Claims about ExtrudedCurve (checked under SpecExtrude).                 *)
(***************************************************************************)
\* C5: at every sampled (u, v) the extrusion's position is curve.subs(u) +
\* v * vector, its uder, vder, uuder are curve.der(u), vector, curve.der2(u),
\* its uvder and vvder are zero, its range is the curve's range and [0, 1];
\* and position, the five derivatives and the range equal those of the
\* tensor surface whose control net is the curve's and its translate.
C5_ExtrusionConsistency ==
    ex.stage = "sampled" =>
        LET s == ex.sample
            spts == spts_of(ex.cpts, ex.vec)
            t == [subs |-> tensor_subs(spts, s.u, s.v),
                  uder |-> tensor_uder(spts, s.u, s.v),
                  vder |-> tensor_vder(spts, s.u, s.v),
                  uuder |-> tensor_uuder(spts, s.u, s.v),
                  uvder |-> tensor_uvder(spts, s.u, s.v),
                  vvder |-> tensor_vvder(spts, s.u, s.v)]
        IN /\ s.subs = VAdd(curve_subs(ex.cpts, s.u), MulParam(FxV(ex.vec), s.v))
           /\ s.uder = curve_der(ex.cpts, s.u)
           /\ s.vder = FxV(ex.vec)
           /\ s.uuder = curve_der2(ex.cpts, s.u)
           /\ s.uvder = VZero
           /\ s.vvder = VZero
           /\ ex.range = <<curve_parameter_range,
                           <<[kind |-> "Included", at |-> 0],
                             [kind |-> "Included", at |-> N]>>>>
           /\ \A f \in DOMAIN t : s[f] = t[f]
           /\ ex.range = tensor_parameter_range

\* C5 witness: the test's surface (the Bezier curve through (0,0,0), (0,1,0),
\* (1,0,0) swept along unit z) sampled at an interior point with u # v.
C5_Witness ==
    /\ ex.stage = "sampled"
    /\ ex.cpts = <<<<0, 0, 0>>, <<0, 1, 0>>, <<1, 0, 0>>>>
    /\ ex.vec = <<0, 0, 1>>
    /\ ex.sample.u = 3 /\ ex.sample.v = 7
    /\ ex.sample.subs = <<90, 420, 700>>

----------------------------------------------------------------------------
(***************************************************************************)
(* truck-geotrait/src/algo/surface.rs: presearch                           *)
(*                                                                         *)
(* An f64 is a record: a number kept in fixed point with unit 1/Q, NaN, or *)
(* +infinity.  Q is a common multiple of the division counts tried, and    *)
(* the regions have whole-number corners, so that i / division and the     *)
(* products with it are exact.                                             *)
(***************************************************************************)
MaxDivision == 3                \* largest division count tried

RECURSIVE Lcm(_, _)
Lcm(n, q) == IF n <= 1 THEN q
             ELSE Lcm(n - 1, CHOOSE m \in q..(q * n) : m % q = 0 /\ m % n = 0
                                  /\ \A l \in q..(m - 1) : ~(l % q = 0 /\ l % n = 0))
Q == Lcm(MaxDivision, 1)

NaN == [k |-> "nan", v |-> 0]
INFINITY == [k |-> "inf", v |-> 0]          \* f64::INFINITY
Num(v) == [k |-> "num", v |-> v]
F(n) == Num(n * Q)                          \* the whole number n; `i as f64`

FAdd(a, b) == IF a.k = "nan" \/ b.k = "nan" THEN NaN
              ELSE IF a.k = "inf" \/ b.k = "inf" THEN INFINITY
              ELSE Num(a.v + b.v)
FSub(a, b) == IF a.k # "num" \/ b.k # "num" THEN NaN ELSE Num(a.v - b.v)
FMul(a, b) == IF a.k # "num" \/ b.k # "num" THEN NaN ELSE Num((a.v * b.v) \div Q)
\* a / b for a >= 0: 0.0 / 0.0 is NaN, x / 0.0 is +infinity.
FDiv(a, b) == IF a.k # "num" \/ b.k # "num" THEN NaN
              ELSE IF b.v = 0 THEN (IF a.v = 0 THEN NaN ELSE INFINITY)
              ELSE Num((a.v * Q) \div b.v)
FAbs(a) == IF a.k = "num" /\ a.v < 0 THEN Num(-a.v) ELSE a
\* a < b: false as soon as one side is NaN.
FLt(a, b) == /\ a.k # "nan" /\ b.k # "nan"
             /\ a.k = "num"
             /\ (b.k = "inf" \/ a.v < b.v)

\* MetricSpace::distance2 of two points, kept in unit 1/Q^2.
distance2(p, q) ==
    LET dx == FSub(p[1], q[1])
        dy == FSub(p[2], q[2])
    IN IF dx.k # "num" \/ dy.k # "num" THEN NaN
       ELSE Num(dx.v * dx.v + dy.v * dy.v)

\* The surfaces searched: implementations of ParametricSurface::subs.
Surfaces == {"plane", "swap", "fold", "constant"}
SurfaceSubs(surface, u, v) ==
    CASE surface = "plane" -> <<u, v>>
      [] surface = "swap" -> <<v, FAdd(u, u)>>
      [] surface = "fold" -> <<FAbs(FSub(u, F(1))), v>>
      [] surface = "constant" -> <<F(1), F(1)>>

\* Lines 20-23: the grid parameter pair of indices (i, j).
GridParam(urange, vrange, division, i, j) ==
    LET p == FDiv(F(i), F(division))
        q == FDiv(F(j), F(division))
    IN <<FAdd(FMul(urange[1], FSub(F(1), p)), FMul(urange[2], p)),
         FAdd(FMul(vrange[1], FSub(F(1), q)), FMul(vrange[2], q))>>

\* A loop body that forgets to lower `min`.
PresearchBody_keeps_min(acc, surface, point, urange, vrange, division, i, j) ==
    LET uv == GridParam(urange, vrange, division, i, j)
        dist == distance2(SurfaceSubs(surface, uv[1], uv[2]), point)
    IN IF FLt(dist, acc.min) THEN [min |-> acc.min, res |-> uv] ELSE acc

\* Lines 20-28: the body of the two loops.
PresearchBody(acc, surface, point, urange, vrange, division, i, j) ==
    LET uv == GridParam(urange, vrange, division, i, j)
        dist == distance2(SurfaceSubs(surface, uv[1], uv[2]), point)
    IN IF FLt(dist, acc.min) THEN [min |-> dist, res |-> uv] ELSE acc

\* for i in 0..=division { for j in 0..=division { .. } }: the first n passes.
RECURSIVE PresearchLoop(_, _, _, _, _, _)
PresearchLoop(surface, point, urange, vrange, division, n) ==
    IF n = 0 THEN [min |-> INFINITY, res |-> <<F(0), F(0)>>]
    ELSE PresearchBody(PresearchLoop(surface, point, urange, vrange, division, n - 1),
                       surface, point, urange, vrange, division,
                       (n - 1) \div (division + 1), (n - 1) % (division + 1))

presearch(surface, point, urange, vrange, division) ==
    PresearchLoop(surface, point, urange, vrange, division,
                  (division + 1) * (division + 1)).res

\* The arguments tried.
Ends == {-1, 0, 1, 2}
Ranges == {<<F(a), F(b)>> : a \in Ends, b \in {1, 2}}
Targets == {<<F(a), F(b)>> : a \in {0, 1}, b \in {0, 2}}
Divisions == 0..MaxDivision

PresearchInit ==
    \E surface \in Surfaces, point \in Targets, urange \in Ranges, vrange \in Ranges,
       division \in Divisions :
        ps = [surface |-> surface, point |-> point, urange |-> urange,
              vrange |-> vrange, division |-> division,
              done |-> FALSE, res |-> <<NaN, NaN>>]

\* The call presearch(surface, point, (urange, vrange), division) returns.
PresearchCall ==
    /\ ~ps.done
    /\ ps' = [ps EXCEPT !.done = TRUE,
                        !.res = presearch(ps.surface, ps.point, ps.urange,
                                          ps.vrange, ps.division)]
    /\ UNCHANGED <<vertexVars, ex, nw, dv>>

PresearchNext == PresearchCall

\* Only presearch runs.
InitPresearch == PresearchInit /\ VertexInit /\ ExtrudeIdle /\ NewtonIdle /\ DivisionIdle

SpecPresearch == InitPresearch /\ [][PresearchNext]_vars

(***************************************************************************)
(* Claims about presearch (checked under SpecPresearch).                   *)
(***************************************************************************)
\* The (N+1) x (N+1) uniform grid samples of the call's region.
GridSamples ==
    {GridParam(ps.urange, ps.vrange, ps.division, i, j) : i, j \in 0..ps.division}
DistOf(uv) == distance2(SurfaceSubs(ps.surface, uv[1], uv[2]), ps.point)

\* C6: for a division count N >= 1 the pair returned is one of the grid
\* samples of the region, and no grid sample is nearer to the target.
C6_PresearchOptimal ==
    (ps.done /\ ps.division >= 1) =>
        /\ ps.res \in GridSamples
        /\ \A g \in GridSamples : ~FLt(DistOf(g), DistOf(ps.res))

\* C6 witness: a call with N >= 2 returned a sample that is neither the first
\* nor the last of the grid, strictly nearer than the first one, with another
\* sample at the same distance.
C6_Witness ==
    /\ ps.done /\ ps.division >= 2
    /\ \E i, j \in 1..(ps.division - 1) :
        ps.res = GridParam(ps.urange, ps.vrange, ps.division, i, j)
    /\ FLt(DistOf(ps.res), DistOf(GridParam(ps.urange, ps.vrange, ps.division, 0, 0)))
    /\ \E g \in GridSamples : g # ps.res /\ DistOf(g) = DistOf(ps.res)

\* C7: called with division = 0, presearch returns a corner of the region.
C7_CornerAtZeroDivision ==
    (ps.done /\ ps.division = 0) =>
        ps.res \in {<<ps.urange[a], ps.vrange[b]>> : a, b \in 1..2}

----------------------------------------------------------------------------
(***************************************************************************)
(* truck-geotrait/src/algo/surface.rs: search_parameter and                *)
(* search_nearest_parameter                                                *)
(*                                                                         *)
(* The surface is any implementation of ParametricSurface: it is given by  *)
(* what the loop body computes from it at each parameter pair.  Squared    *)
(* magnitudes of derivatives are in units of 0.01, squared residuals in    *)
(* units of 0.01 * TOLERANCE2, determinants in units of TOLERANCE / 2.     *)
(***************************************************************************)
NumParams == 2                  \* parameter pairs the iteration can visit
MaxTrials == 2                  \* largest `trials` tried

CapSearch == 5                  \* f64::min(0.05, ..) in search_parameter
CapNearest == 100               \* f64::min(1.0, ..) in search_nearest_parameter
SoSmall == 2                    \* TOLERANCE, the bound of so_small()

Params == 1..NumParams

\* What the surface gives at one parameter pair:
\*   r2    pt.distance2(point) (search_parameter), f.magnitude2() (nearest)
\*   ud2   uder.magnitude2()       vd2   vder.magnitude2()
\*   det   the determinant of the matrix that is inverted
Locals ==
    { [r2 |-> 4,    ud2 |-> 400, vd2 |-> 400, det |-> -3],  \* at the root
      [r2 |-> 50,   ud2 |-> 400, vd2 |-> 400, det |-> -3],  \* near the root
      [r2 |-> 1000, ud2 |-> 400, vd2 |-> 400, det |-> -3],  \* far, regular
      [r2 |-> 1000, ud2 |-> 0,   vd2 |-> 400, det |-> 0],   \* far, singular
      [r2 |-> 1000, ud2 |-> 400, vd2 |-> 4,   det |-> 1],   \* far, tiny determinant
      [r2 |-> 4,    ud2 |-> 4,   vd2 |-> 0,   det |-> 0] }  \* root at a singular point

Min(a, b) == IF a < b THEN a ELSE b
Abs(a) == IF a < 0 THEN -a ELSE a

\* Matrix2::invert / Matrix3::invert: None exactly when the determinant is 0.
Invertible(loc) == loc.det # 0
\* Tolerance::so_small: abs(det) < TOLERANCE.
so_small(det) == Abs(det) < SoSmall

\* Lines 120-122: pt.distance2(point) < TOLERANCE2 * dermag2.
SearchConverged(loc) == loc.r2 < Min(Min(CapSearch, loc.ud2), loc.vd2)
\* Lines 61-63: f.magnitude2() < TOLERANCE2 * dermag2 || determinant().so_small().
NearestConverged(loc) ==
    \/ loc.r2 < Min(Min(CapNearest, loc.ud2), loc.vd2)
    \/ so_small(loc.det)

Converged(alg, loc) ==
    IF alg = "search_parameter" THEN SearchConverged(loc) ELSE NearestConverged(loc)

\* A loop that makes one pass too few: `for _ in 0..trials`.
InLoop_exclusive(k, trials) == k < trials

\* `for _ in 0..=trials`: pass number k (from 0) is made.
InLoop(k, trials) == k <= trials

Running == [tag |-> "running", at |-> 0]
None == [tag |-> "None", at |-> 0]
Some(p) == [tag |-> "Some", at |-> p]

NewtonInit ==
    \E alg \in {"search_parameter", "search_nearest_parameter"},
       surface \in [Params -> Locals], step \in [Params -> Params],
       hint \in Params, trials \in 0..MaxTrials :
        nw = [alg |-> alg, surface |-> surface, step |-> step, trials |-> trials,
              vec |-> hint, k |-> 0, log |-> <<>>, printed |-> FALSE,
              result |-> Running]

\* Lines 115-125: one pass of the loop of search_parameter.
SearchParameterPass ==
    /\ nw.alg = "search_parameter"
    /\ nw.result = Running
    /\ InLoop(nw.k, nw.trials)
    /\ LET u0v0 == nw.vec
           loc == nw.surface[u0v0]
           log == Append(nw.log, u0v0)
       IN IF SearchConverged(loc)
          THEN nw' = [nw EXCEPT !.log = log, !.result = Some(u0v0)]
          ELSE IF ~Invertible(loc)                 \* advance_newton(..)? is None
          THEN nw' = [nw EXCEPT !.log = log, !.result = None]
          ELSE nw' = [nw EXCEPT !.log = log, !.vec = nw.step[u0v0], !.k = @ + 1]
    /\ UNCHANGED <<vertexVars, ex, ps, dv>>

\* Lines 48-67: one pass of the loop of search_nearest_parameter.
SearchNearestParameterPass ==
    /\ nw.alg = "search_nearest_parameter"
    /\ nw.result = Running
    /\ InLoop(nw.k, nw.trials)
    /\ LET hint == nw.vec
           loc == nw.surface[hint]
           log == Append(nw.log, hint)
       IN IF NearestConverged(loc)
          THEN nw' = [nw EXCEPT !.log = log, !.result = Some(hint)]
          ELSE IF ~Invertible(loc)                 \* fprime.invert()? is None
          THEN nw' = [nw EXCEPT !.log = log, !.result = None]
          ELSE nw' = [nw EXCEPT !.log = log, !.vec = nw.step[hint], !.k = @ + 1]
    /\ UNCHANGED <<vertexVars, ex, ps, dv>>

\* Lines 69-70 and 127-128: the loop is over; log.print_error(); None.
SearchExhausted ==
    /\ nw.result = Running
    /\ ~InLoop(nw.k, nw.trials)
    /\ nw' = [nw EXCEPT !.printed = TRUE, !.result = None]
    /\ UNCHANGED <<vertexVars, ex, ps, dv>>

NewtonNext ==
    \/ SearchParameterPass
    \/ SearchNearestParameterPass
    \/ SearchExhausted

\* Only the Newton searches run.
InitNewton == NewtonInit /\ VertexInit /\ ExtrudeIdle /\ PresearchIdle /\ DivisionIdle

SpecNewton == InitNewton /\ [][NewtonNext]_vars

(***************************************************************************)
(* Claims about the Newton searches (checked under SpecNewton).            *)
(***************************************************************************)
\* The examined iterates, in order, that met the convergence criterion.
MetAt == {n \in 1..Len(nw.log) : Converged(nw.alg, nw.surface[nw.log[n]])}

\* C8: a search examines at most trials + 1 iterates and ends with None or
\* Some; it returns None exactly when no examined iterate met the criterion,
\* and then the trial budget is used up or the matrix was singular at the
\* last iterate; otherwise it returns Some of the first iterate that met the
\* criterion, which is the last one examined.
C8_BoundedSearch ==
    /\ Len(nw.log) <= nw.trials + 1
    /\ nw.result.tag \in {"running", "None", "Some"}
    /\ nw.result = Running => Len(nw.log) = nw.k
    /\ nw.result # Running =>
        /\ nw.result = None <=> MetAt = {}
        /\ nw.result = None =>
            \/ Len(nw.log) = nw.trials + 1 /\ nw.printed
            \/ Len(nw.log) >= 1 /\ ~Invertible(nw.surface[nw.log[Len(nw.log)]])
        /\ nw.result.tag = "Some" =>
            /\ MetAt = {Len(nw.log)}
            /\ nw.result.at = nw.log[Len(nw.log)]

\* C8 witnesses: the three ways a search ends, each after more than one pass:
\* the budget is used up, the Jacobian is singular, an iterate converges.
C8_Witness ==
    /\ nw.trials = MaxTrials
    /\ nw.result = None
    /\ Len(nw.log) = nw.trials + 1
    /\ Invertible(nw.surface[nw.log[Len(nw.log)]])

----------------------------------------------------------------------------
(***************************************************************************)
(* truck-geotrait/src/algo/surface.rs: parameter_division and              *)
(* sub_parameter_division                                                  *)
(*                                                                         *)
(* Two calls are made one after the other on the same surface and region,  *)
(* each with its own tolerance.  The surface is the graph of a height      *)
(* function that is 0 except at finitely many parameter pairs (narrow      *)
(* spikes).                                                                *)
(* Parameters are integers, fractions p and q are in hundredths, heights   *)
(* and tolerances are in units of TOLERANCE.                               *)
(***************************************************************************)
MaxDepth == 2                   \* a spike is met by a cell halved at most so often

TOLERANCE == 1                  \* the minimum distinguishable distance
Tolerances == {-1, 0, TOLERANCE, 2, 4}
Heights == {3, 5}               \* heights of the spikes
Width == 10 * 2^(MaxDepth + 1)  \* every interval that is sampled has a whole
                                \* midpoint and whole sampling parameters
Regions == {<<<<0, Width>>, <<0, Width>>>>}

\* surface.subs(u, v) of the graph surface with the spikes `surface`.
HeightAt(surface, u, v) ==
    LET at == {b \in surface : b.at = <<u, v>>}
    IN IF at = {} THEN 0 ELSE (CHOOSE b \in at : TRUE).z
GraphSubs(surface, u, v) == <<u, v, HeightAt(surface, u, v)>>

\* HashGen::hash1: a value in [0, 1) that depends on the point only; in
\* hundredths.
hash1(gen) == (gen[3] % 2) * 50

\* Lines 166-167: 0.5 + (0.2 * HashGen::hash1(gen) - 0.1), in hundredths.
Jitter(gen) == 50 + ((20 * hash1(gen)) \div 100 - 10)

\* Lines 164-169: the jittered sampling parameters of the cell u x v.
CellSample(surface, u, v) ==
    LET u_gen == (u[1] + u[2]) \div 2
        v_gen == (v[1] + v[2]) \div 2
        gen == GraphSubs(surface, u_gen, v_gen)
        p == Jitter(gen)
        q == Jitter(gen)
    IN [p |-> p, q |-> q,
        u0 |-> (u[1] * (100 - p) + u[2] * p) \div 100,
        v0 |-> (v[1] * (100 - q) + v[2] * q) \div 100]

PointDistance2(a, b) ==
    (a[1] - b[1]) * (a[1] - b[1]) + (a[2] - b[2]) * (a[2] - b[2])
        + (a[3] - b[3]) * (a[3] - b[3])

\* Lines 170-181: the surface at the sample against the bilinear interpolant
\* of the four corners.
CellFar(surface, u, v, tol) ==
    LET s == CellSample(surface, u, v)
        p == s.p
        q == s.q
        p0 == GraphSubs(surface, s.u0, s.v0)
        pt00 == GraphSubs(surface, u[1], v[1])
        pt01 == GraphSubs(surface, u[1], v[2])
        pt10 == GraphSubs(surface, u[2], v[1])
        pt11 == GraphSubs(surface, u[2], v[2])
        pt == [k \in 1..3 |->
                 (pt00[k] * (100 - p) * (100 - q) + pt01[k] * (100 - p) * q
                    + pt10[k] * p * (100 - q) + pt11[k] * p * q) \div 10000]
    IN PointDistance2(p0, pt) > tol * tol

\* udiv.windows(2)
Windows(div) == [i \in 1..(Len(div) - 1) |-> <<div[i], div[i + 1]>>]

\* A scan that skips a cell as soon as one of its two intervals is flagged.
Skip_either(ub, vb) == ub \/ vb

\* Lines 161-163: if *ub && *vb { continue; }
Skip(ub, vb) == ub /\ vb

\* A loop body that assigns the flags instead of or-ing them: *ub = far.
ScanBody_overwrite(flags, surface, udiv, vdiv, tol, i, j) ==
    IF Skip(flags.flag0[i], flags.flag1[j])
    THEN flags
    ELSE LET far == CellFar(surface, Windows(udiv)[i], Windows(vdiv)[j], tol)
         IN [flag0 |-> [flags.flag0 EXCEPT ![i] = far],
             flag1 |-> [flags.flag1 EXCEPT ![j] = far]]

\* Lines 160-185: the body of the two nested loops for the cell (i, j).
ScanBody(flags, surface, udiv, vdiv, tol, i, j) ==
    IF Skip(flags.flag0[i], flags.flag1[j])
    THEN flags
    ELSE LET far == CellFar(surface, Windows(udiv)[i], Windows(vdiv)[j], tol)
         IN [flag0 |-> [flags.flag0 EXCEPT ![i] = @ \/ far],
             flag1 |-> [flags.flag1 EXCEPT ![j] = @ \/ far]]

\* Lines 156-186: the flags after the first n cells, u outer and v inner.
RECURSIVE ScanCells(_, _, _, _, _)
ScanCells(surface, udiv, vdiv, tol, n) ==
    IF n = 0
    THEN [flag0 |-> [i \in 1..(Len(udiv) - 1) |-> FALSE],
          flag1 |-> [j \in 1..(Len(vdiv) - 1) |-> FALSE]]
    ELSE LET prev == ScanCells(surface, udiv, vdiv, tol, n - 1)
             nv == Len(vdiv) - 1
         IN ScanBody(prev, surface, udiv, vdiv, tol,
                     ((n - 1) \div nv) + 1, ((n - 1) % nv) + 1)

\* Lines 188-202: new_udiv / new_vdiv after the first n intervals.
RECURSIVE NewDiv(_, _, _)
NewDiv(div, flag, n) ==
    IF n = 0
    THEN <<div[1]>>
    ELSE LET prev == NewDiv(div, flag, n - 1)
         IN IF flag[n]
            THEN prev \o <<(div[n] + div[n + 1]) \div 2, div[n + 1]>>
            ELSE Append(prev, div[n + 1])

\* The cells whose sample may meet a spike: the region itself and, next to
\* its edge u = urange.0, the cells over either half of vrange.
SpikeCells(region) ==
    LET ur == region[1]
        vr == region[2]
        vm == (vr[1] + vr[2]) \div 2
    IN {<<ur, vr>>} \cup
       { <<<<ur[1], ur[1] + Width \div 2^d>>, v>> :
            d \in 1..MaxDepth, v \in {<<vr[1], vm>>, <<vm, vr[2]>>} }

\* The graph surfaces tried on a region: a spike or none in each such cell,
\* at the parameters the cell is sampled at.
Spikes(region) ==
    { { LET s == CellSample({}, c[1], c[2])
        IN [at |-> <<s.u0, s.v0>>, z |-> f[c]] : c \in {x \in SpikeCells(region) : f[x] # 0} } :
        f \in [SpikeCells(region) -> {0} \cup Heights] }

NewRun(tol) == [tol |-> tol, status |-> "new", udiv |-> <<>>, vdiv |-> <<>>, hist |-> <<>>]

DivisionInit ==
    \E region \in Regions, tol1, tol2 \in Tolerances :
      \E surface \in Spikes(region) :
        dv = [surface |-> surface, region |-> region,
              runs |-> <<NewRun(tol1), NewRun(tol2)>>]

\* The second call is made when the first has returned or panicked.
Turn(r) == r = 1 \/ dv.runs[1].status \in {"done", "aborted"}

\* nonpositive_tolerance!(tol): panics unless tol is more than TOLERANCE.
nonpositive_tolerance(tol) == tol <= TOLERANCE

\* A parameter_division that does not check its tolerance.
parameter_division_unchecked(r) ==
    /\ dv.runs[r].status = "new"
    /\ Turn(r)
    /\ LET udiv == <<dv.region[1][1], dv.region[1][2]>>
           vdiv == <<dv.region[2][1], dv.region[2][2]>>
       IN dv' = [dv EXCEPT !.runs[r] = [@ EXCEPT !.status = "running",
                    !.udiv = udiv, !.vdiv = vdiv, !.hist = <<<<udiv, vdiv>>>>]]
    /\ UNCHANGED <<vertexVars, ex, ps, nw>>

\* Lines 137-147: the tolerance check and the first grid, the region's corners.
parameter_division(r) ==
    /\ dv.runs[r].status = "new"
    /\ Turn(r)
    /\ IF nonpositive_tolerance(dv.runs[r].tol)
       THEN dv' = [dv EXCEPT !.runs[r].status = "aborted"]
       ELSE LET udiv == <<dv.region[1][1], dv.region[1][2]>>
                vdiv == <<dv.region[2][1], dv.region[2][2]>>
            IN dv' = [dv EXCEPT !.runs[r] = [@ EXCEPT !.status = "running",
                         !.udiv = udiv, !.vdiv = vdiv, !.hist = <<<<udiv, vdiv>>>>]]
    /\ UNCHANGED <<vertexVars, ex, ps, nw>>

\* Lines 152-209: one call of sub_parameter_division; the recursive call is
\* the next step, and the return without change ends parameter_division.
sub_parameter_division(r) ==
    /\ dv.runs[r].status = "running"
    /\ Turn(r)
    /\ LET run == dv.runs[r]
           udiv == run.udiv
           vdiv == run.vdiv
           nu == Len(udiv) - 1
           nv == Len(vdiv) - 1
           flags == ScanCells(dv.surface, udiv, vdiv, run.tol, nu * nv)
           new_udiv == NewDiv(udiv, flags.flag0, nu)
           new_vdiv == NewDiv(vdiv, flags.flag1, nv)
       IN dv' = [dv EXCEPT !.runs[r] =
                    IF Len(udiv) # Len(new_udiv) \/ Len(vdiv) # Len(new_vdiv)
                    THEN [run EXCEPT !.udiv = new_udiv, !.vdiv = new_vdiv,
                                     !.hist = Append(@, <<new_udiv, new_vdiv>>)]
                    ELSE [run EXCEPT !.status = "done"]]
    /\ UNCHANGED <<vertexVars, ex, ps, nw>>

DivisionNext ==
    \E r \in 1..2 :
        \/ parameter_division(r)
        \/ sub_parameter_division(r)

\* Only the subdivision runs.
InitDivision == DivisionInit /\ VertexInit /\ ExtrudeIdle /\ PresearchIdle /\ NewtonIdle

SpecDivision == InitDivision /\ [][DivisionNext]_vars

(***************************************************************************)
(* Claims about the subdivision (checked under SpecDivision).              *)
(***************************************************************************)
\* C9: a call with a tolerance at or below TOLERANCE (equal, zero and
\* negative included) panics and produces no breakpoint sequence, whatever
\* the surface and the region.
C9_AbortBelowTolerance ==
    \A r \in 1..2 :
        LET run == dv.runs[r]
        IN run.tol <= TOLERANCE /\ run.status # "new" =>
            /\ run.status = "aborted"
            /\ run.udiv = <<>> /\ run.vdiv = <<>> /\ run.hist = <<>>

\* C9 witness: on a surface that a valid tolerance refines, the call with
\* tol = TOLERANCE has panicked.
C9_Witness ==
    /\ dv.runs[1].tol = TOLERANCE /\ dv.runs[1].status = "aborted"
    /\ dv.runs[2].status = "done" /\ Len(dv.runs[2].hist) > 1

Count(run) == Len(run.udiv) + Len(run.vdiv)
Returned(a) == dv.runs[a].status = "done"

\* C10 as stated: of two returned calls on the same surface and region, the
\* one with the smaller tolerance returns at least as many breakpoints.
C10_MonotoneCount ==
    \A a, b \in 1..2 :
        Returned(a) /\ Returned(b) /\ dv.runs[a].tol > dv.runs[b].tol
            => Count(dv.runs[b]) >= Count(dv.runs[a])

\* The grid a run has after its pass number k; defined when HasAfter.
HasAfter(run, k) == k < Len(run.hist) \/ (k = Len(run.hist) /\ run.status = "done")
After(run, k) == IF k < Len(run.hist) THEN run.hist[k + 1] ELSE run.hist[k]
Points(div) == {div[i] : i \in 1..Len(div)}
Refines(fine, coarse) ==
    /\ Points(coarse[1]) \subseteq Points(fine[1])
    /\ Points(coarse[2]) \subseteq Points(fine[2])
    /\ Len(fine[1]) + Len(fine[2]) >= Len(coarse[1]) + Len(coarse[2])
\* The passes both runs began from the same grid.
SameStart(a, b) ==
    {k \in 1..Min(Len(dv.runs[a].hist), Len(dv.runs[b].hist)) :
        dv.runs[a].hist[k] = dv.runs[b].hist[k]}

\* C10 amended: with tol1 > tol2 on the same surface and region, a pass from
\* the same grid bisects under tol2 every interval it bisects under tol1; so
\* the tol2 call returns at least as many breakpoints whenever the tol1 call
\* bisects nothing after the first pass that makes the two grids differ.
C10_PassMonotone ==
    \A a, b \in 1..2 :
        dv.runs[a].tol > dv.runs[b].tol =>
            /\ \A k \in SameStart(a, b) :
                 HasAfter(dv.runs[a], k) /\ HasAfter(dv.runs[b], k)
                    => Refines(After(dv.runs[b], k), After(dv.runs[a], k))
            /\ Returned(a) /\ Returned(b)
                 /\ Len(dv.runs[a].hist) - 1 \in SameStart(a, b) \cup {0}
                    => Count(dv.runs[b]) >= Count(dv.runs[a])

\* C10 witness: both calls returned, the one with the larger tolerance
\* refined the grid, and the other bisected an interval it did not.
C10_Witness ==
    /\ dv.runs[1].tol > dv.runs[2].tol
    /\ Returned(1) /\ Returned(2)
    /\ Len(dv.runs[1].hist) > 2
    /\ \E k \in SameStart(1, 2) :
         /\ HasAfter(dv.runs[1], k) /\ HasAfter(dv.runs[2], k)
         /\ After(dv.runs[1], k) # dv.runs[1].hist[k]
         /\ After(dv.runs[2], k) # After(dv.runs[1], k)

\* Lines 159-163: the cells of a grid that a pass tests, that is, does not
\* skip.
TestedCells(surface, udiv, vdiv, tol) ==
    LET nv == Len(vdiv) - 1
    IN { <<Windows(udiv)[((n - 1) \div nv) + 1], Windows(vdiv)[((n - 1) % nv) + 1]>> :
            n \in { m \in 1..((Len(udiv) - 1) * nv) :
                      LET prev == ScanCells(surface, udiv, vdiv, tol, m - 1)
                      IN ~Skip(prev.flag0[((m - 1) \div nv) + 1],
                               prev.flag1[((m - 1) % nv) + 1]) } }

\* The passes a run has made: pass k starts from the grid hist[k].
Passes(run) == {k \in 1..Len(run.hist) : HasAfter(run, k)}
Intervals(div) == {Windows(div)[i] : i \in 1..(Len(div) - 1)}
GridCells(grid) == {<<u, v>> : u \in Intervals(grid[1]), v \in Intervals(grid[2])}
\* The interval w is bisected by the pass that turns its axis into `after`.
Bisected(w, after) == ((w[1] + w[2]) \div 2) \in Points(after)
GridCount(grid) == Len(grid[1]) + Len(grid[2])
\* Every pass that is followed by another pass adds a breakpoint.
StrictGrowth(run) ==
    \A k \in 1..(Len(run.hist) - 1) : GridCount(run.hist[k + 1]) > GridCount(run.hist[k])
\* The cells pass k tested and found within tolerance.
TestedFine(run, k) ==
    {c \in TestedCells(dv.surface, run.hist[k][1], run.hist[k][2], run.tol) :
        ~CellFar(dv.surface, c[1], c[2], run.tol)}

Acting == IF dv.runs[2].status = "new" THEN 1 ELSE 2
\* The pass a run has made last (every pass is the last one in some state).
LastPass(run) == {k \in Passes(run) : k + 1 \notin Passes(run)}

====
